---- MODULE Spec2Model ----
(***************************************************************************)
(* Stochastic RSI pipeline of src/src/indicators/stoch_rsi.py:             *)
(* Wilder RSI -> rolling stochastic %K -> SMA(k_smooth) -> SMA(d_smooth),  *)
(* with its consumers: calculate_pair of src/src/core/calculator.py, the   *)
(* stoch_rsi_data table of src/src/db/database.py and the threads of       *)
(* src/api_server.py.                                                      *)
(*                                                                         *)
(* Python floats are modelled as exact rationals <<num, den>> in lowest    *)
(* terms with den > 0; None is the empty tuple; a raised exception is a    *)
(* one-element tuple that every arithmetic operator propagates.  Python    *)
(* lists are 0-based: Idx/SetItem translate to TLA+'s 1-based sequences    *)
(* and keep Python's negative-index wrap-around and IndexError.            *)
(***************************************************************************)
EXTENDS Integers, Sequences, FiniteSets, TLC

VARIABLES closes, calc, ret, db, srv

vars == <<closes, calc, ret, db, srv>>

(* ---------------------------- bounds ----------------------------------- *)
MaxLen == 5

(* ------------------------- Python values ------------------------------- *)
None == <<>>
ZeroDivisionError == <<1>>
IndexError == <<2>>
ValueError == <<3>>
TypeError == <<4>>

IsExc(x) == Len(x) = 1
IsNum(x) == Len(x) = 2

AbsInt(x) == IF x < 0 THEN -x ELSE x

RECURSIVE GCD(_, _)
GCD(a, b) == IF b = 0 THEN a ELSE GCD(b, a % b)

Q(n, d) ==
    LET s == IF d < 0 THEN -1 ELSE 1
        g == GCD(AbsInt(n), AbsInt(d))
    IN  <<(s * n) \div g, (s * d) \div g>>

FromInt(n) == <<n, 1>>
Zero == FromInt(0)
One == FromInt(1)
Fifty == FromInt(50)
Hundred == FromInt(100)

Operands(a, b) ==
    IF IsExc(a) THEN a
    ELSE IF IsExc(b) THEN b
    ELSE IF a = None \/ b = None THEN TypeError
    ELSE None

(* exact arithmetic over the least common denominator *)
Add(a, b) ==
    IF Operands(a, b) # None THEN Operands(a, b)
    ELSE LET g == GCD(a[2], b[2])
         IN  Q(a[1] * (b[2] \div g) + b[1] * (a[2] \div g), (a[2] \div g) * b[2])

Sub(a, b) ==
    IF Operands(a, b) # None THEN Operands(a, b)
    ELSE LET g == GCD(a[2], b[2])
         IN  Q(a[1] * (b[2] \div g) - b[1] * (a[2] \div g), (a[2] \div g) * b[2])

Mul(a, b) ==
    IF Operands(a, b) # None THEN Operands(a, b)
    ELSE LET x == Q(a[1], b[2])
             y == Q(b[1], a[2])
         IN  <<x[1] * y[1], x[2] * y[2]>>

Div(a, b) ==
    IF Operands(a, b) # None THEN Operands(a, b)
    ELSE IF b[1] = 0 THEN ZeroDivisionError
    ELSE Mul(a, Q(b[2], b[1]))

Lt(a, b) ==
    /\ IsNum(a)
    /\ IsNum(b)
    /\ LET g == GCD(a[2], b[2])
       IN  a[1] * (b[2] \div g) < b[1] * (a[2] \div g)

Gt(a, b) == Lt(b, a)

Max2(a, b) ==
    IF Operands(a, b) # None THEN Operands(a, b)
    ELSE IF Gt(b, a) THEN b ELSE a

Min2(a, b) ==
    IF Operands(a, b) # None THEN Operands(a, b)
    ELSE IF Lt(b, a) THEN b ELSE a

AbsQ(a) ==
    IF IsExc(a) THEN a
    ELSE IF a = None THEN TypeError
    ELSE <<AbsInt(a[1]), a[2]>>

(* v, unless evaluating a or b raised first *)
Raising(a, b, v) == IF IsExc(a) THEN a ELSE IF IsExc(b) THEN b ELSE v

(* ------------------------- Python lists -------------------------------- *)
NoneList(n) == [i \in 1..n |-> None]

HasExc(list) == \E i \in 1..Len(list) : IsExc(list[i])

FirstExc(list) ==
    list[CHOOSE i \in 1..Len(list) :
            IsExc(list[i]) /\ \A j \in 1..(i - 1) : ~IsExc(list[j])]

Idx(list, j) ==
    IF j >= 0 /\ j < Len(list) THEN list[j + 1]
    ELSE IF j < 0 /\ -j <= Len(list) THEN list[Len(list) + j + 1]
    ELSE IndexError

SetItem(list, j, v) ==
    IF HasExc(list) THEN list
    ELSE IF j >= 0 /\ j < Len(list) THEN [list EXCEPT ![j + 1] = v]
    ELSE IF j < 0 /\ -j <= Len(list) THEN [list EXCEPT ![Len(list) + j + 1] = v]
    ELSE <<IndexError>>

Prefix(list, n) ==
    LET m == IF n < 0 THEN (IF Len(list) + n < 0 THEN 0 ELSE Len(list) + n)
             ELSE IF n > Len(list) THEN Len(list) ELSE n
    IN  SubSeq(list, 1, m)

RECURSIVE Sum(_)
Sum(list) == IF list = <<>> THEN Zero ELSE Add(Sum(Prefix(list, Len(list) - 1)), list[Len(list)])

RECURSIVE MinOf(_)
MinOf(list) ==
    IF list = <<>> THEN ValueError
    ELSE IF Len(list) = 1 THEN list[1]
    ELSE Min2(MinOf(Prefix(list, Len(list) - 1)), list[Len(list)])

RECURSIVE MaxOf(_)
MaxOf(list) ==
    IF list = <<>> THEN ValueError
    ELSE IF Len(list) = 1 THEN list[1]
    ELSE Max2(MaxOf(Prefix(list, Len(list) - 1)), list[Len(list)])

(* What a call hands back: the list it returns, or the exception it raised *)
Return(list) ==
    IF HasExc(list) THEN [exc |-> FirstExc(list), val |-> <<>>]
    ELSE [exc |-> None, val |-> list]

(* ------------------------- _calculate_rsi ------------------------------ *)
(* seeded fault: the zero-loss rule tests avg_gain >= 0 *)
RsiFromAveragesGe(avg_gain, avg_loss) ==
    IF avg_loss = Zero
    THEN IF ~Lt(avg_gain, Zero) THEN Hundred ELSE Zero
    ELSE LET rs == Div(avg_gain, avg_loss)
         IN  Sub(Hundred, Div(Hundred, Add(One, rs)))

(* seeded fault: 100 - 100 / RS, the 1 + dropped *)
RsiFromAveragesNoOne(avg_gain, avg_loss) ==
    IF avg_loss = Zero
    THEN IF Gt(avg_gain, Zero) THEN Hundred ELSE Zero
    ELSE LET rs == Div(avg_gain, avg_loss)
         IN  Sub(Hundred, Div(Hundred, rs))

(* seeded fault: a zero average loss always saturates to 100 *)
RsiFromAveragesSaturated(avg_gain, avg_loss) ==
    IF avg_loss = Zero
    THEN Hundred
    ELSE LET rs == Div(avg_gain, avg_loss)
         IN  Sub(Hundred, Div(Hundred, Add(One, rs)))

RsiFromAverages(avg_gain, avg_loss) ==
    IF avg_loss = Zero
    THEN IF Gt(avg_gain, Zero) THEN Hundred ELSE Zero
    ELSE LET rs == Div(avg_gain, avg_loss)
         IN  Sub(Hundred, Div(Hundred, Add(One, rs)))

Deltas(cl) ==
    [i \in 1..(IF Len(cl) = 0 THEN 0 ELSE Len(cl) - 1) |->
        Sub(Idx(cl, i), Idx(cl, i - 1))]

Gains(deltas) == [j \in 1..Len(deltas) |-> Max2(deltas[j], Zero)]

(* seeded fault: losses = [abs(d) for d in deltas] *)
LossesAbs(deltas) == [i \in 1..Len(deltas) |-> AbsQ(deltas[i])]

Losses(deltas) == [j \in 1..Len(deltas) |-> AbsQ(Min2(deltas[j], Zero))]

(* seeded fault: a standard EMA (alpha = 2 / (period + 1)) instead of Wilder's *)
WilderStepEma(avg, x, period) ==
    Div(Add(Mul(avg, FromInt(period - 1)), Mul(x, FromInt(2))), FromInt(period + 1))

WilderStep(avg, x, period) ==
    Div(Add(Mul(avg, FromInt(period - 1)), x), FromInt(period))

RECURSIVE WilderLoop(_, _, _, _, _, _)
WilderLoop(i, stop, st, gains, losses, period) ==
    IF i >= stop \/ HasExc(st.rsi_values) THEN st
    ELSE LET avg_gain == WilderStep(st.avg_gain, Idx(gains, i - 1), period)
             avg_loss == WilderStep(st.avg_loss, Idx(losses, i - 1), period)
         IN  WilderLoop(i + 1, stop,
                 [avg_gain |-> avg_gain,
                  avg_loss |-> avg_loss,
                  rsi_values |-> SetItem(st.rsi_values, i,
                                         Raising(avg_gain, avg_loss,
                                                 RsiFromAverages(avg_gain, avg_loss))),
                  trace |-> Append(st.trace,
                                   [i |-> i, avg_gain |-> avg_gain, avg_loss |-> avg_loss])],
                 gains, losses, period)

(* seeded fault: the first value is written one index early *)
SeedIndexEarly(period) == period - 1

(* rsi_values[period] receives the first value *)
SeedIndex(period) == period

RsiRun(cl, period) ==
    IF Len(cl) < period + 1
    THEN [avg_gain |-> None, avg_loss |-> None,
          rsi_values |-> NoneList(Len(cl)), trace |-> <<>>]
    ELSE LET deltas == Deltas(cl)
             gains == Gains(deltas)
             losses == Losses(deltas)
             avg_gain == Div(Sum(Prefix(gains, period)), FromInt(period))
             avg_loss == Div(Sum(Prefix(losses, period)), FromInt(period))
             seeded == [avg_gain |-> avg_gain,
                        avg_loss |-> avg_loss,
                        rsi_values |-> SetItem(NoneList(Len(cl)), SeedIndex(period),
                                               Raising(avg_gain, avg_loss,
                                                       RsiFromAverages(avg_gain, avg_loss))),
                        trace |-> <<[i |-> SeedIndex(period), avg_gain |-> avg_gain,
                                     avg_loss |-> avg_loss]>>]
         IN  WilderLoop(period + 1, Len(cl), seeded, gains, losses, period)

calculate_rsi(cl, period) == RsiRun(cl, period).rsi_values

(* ------------------------- window scans -------------------------------- *)
(* for j in range(j, stop): if list[j] is not None: window.append(list[j]) *)
RECURSIVE WindowScan(_, _, _, _)
WindowScan(j, stop, list, window) ==
    IF j >= stop THEN window
    ELSE LET v == Idx(list, j)
         IN  WindowScan(j + 1, stop, list,
                        IF v # None THEN Append(window, v) ELSE window)

(* ------------------------- _calculate_stoch_k -------------------------- *)
(* seeded fault: no max == min test before the division *)
StochKAtUnguarded(rsi_values, i, period, old) ==
    LET window == WindowScan(i - period + 1, i + 1, rsi_values, <<>>)
    IN  IF HasExc(window) THEN FirstExc(window)
        ELSE IF Len(window) < period THEN old
        ELSE Mul(Div(Sub(Idx(rsi_values, i), MinOf(window)),
                     Sub(MaxOf(window), MinOf(window))),
                 Hundred)

(* seeded fault: min and max are taken over every value seen so far *)
StochKAtExpanding(rsi_values, i, period, old) ==
    LET window == WindowScan(i - period + 1, i + 1, rsi_values, <<>>)
        seen == WindowScan(0, i + 1, rsi_values, <<>>)
    IN  IF HasExc(window) THEN FirstExc(window)
        ELSE IF Len(window) < period THEN old
        ELSE IF MaxOf(seen) = MinOf(seen) THEN Fifty
        ELSE Mul(Div(Sub(Idx(rsi_values, i), MinOf(seen)),
                     Sub(MaxOf(seen), MinOf(seen))),
                 Hundred)

(* seeded fault: a flat window gives 0 *)
StochKAtFlatZero(rsi_values, i, period, old) ==
    LET window == WindowScan(i - period + 1, i + 1, rsi_values, <<>>)
    IN  IF HasExc(window) THEN FirstExc(window)
        ELSE IF Len(window) < period THEN old
        ELSE IF MaxOf(window) = MinOf(window) THEN Zero
        ELSE Mul(Div(Sub(Idx(rsi_values, i), MinOf(window)),
                     Sub(MaxOf(window), MinOf(window))),
                 Hundred)

(* seeded fault: the window is the last period numbers seen, nulls skipped *)
StochKAtTolerant(rsi_values, i, period, old) ==
    LET seen == WindowScan(0, i + 1, rsi_values, <<>>)
        window == SubSeq(seen, Len(seen) - period + 1, Len(seen))
    IN  IF HasExc(seen) THEN FirstExc(seen)
        ELSE IF Len(seen) < period THEN old
        ELSE IF MaxOf(window) = MinOf(window) THEN Fifty
        ELSE Mul(Div(Sub(window[Len(window)], MinOf(window)),
                     Sub(MaxOf(window), MinOf(window))),
                 Hundred)

(* seeded fault: a flat window saturates to 100 *)
StochKAtSaturated(rsi_values, i, period, old) ==
    LET window == WindowScan(i - period + 1, i + 1, rsi_values, <<>>)
    IN  IF HasExc(window) THEN FirstExc(window)
        ELSE IF Len(window) < period THEN old
        ELSE IF MaxOf(window) = MinOf(window) THEN Hundred
        ELSE Mul(Div(Sub(Idx(rsi_values, i), MinOf(window)),
                     Sub(MaxOf(window), MinOf(window))),
                 Hundred)

(* seeded fault: a window one value short is accepted *)
StochKAtShort(rsi_values, i, period, old) ==
    LET window == WindowScan(i - period + 1, i + 1, rsi_values, <<>>)
    IN  IF HasExc(window) THEN FirstExc(window)
        ELSE IF Len(window) < period - 1 \/ Len(window) = 0 THEN old
        ELSE LET min_rsi == MinOf(window)
                 max_rsi == MaxOf(window)
             IN  IF IsExc(min_rsi) THEN min_rsi
                 ELSE IF max_rsi = min_rsi THEN Fifty
                 ELSE Mul(Div(Sub(Idx(rsi_values, i), min_rsi),
                              Sub(max_rsi, min_rsi)),
                          Hundred)

(* seeded fault: the window runs on to the end of the list *)
StochKAtToEnd(rsi_values, i, period, old) ==
    LET window == WindowScan(i - period + 1, Len(rsi_values), rsi_values, <<>>)
    IN  IF HasExc(window) THEN FirstExc(window)
        ELSE IF Len(window) < period THEN old
        ELSE LET min_rsi == MinOf(window)
                 max_rsi == MaxOf(window)
             IN  IF IsExc(min_rsi) THEN min_rsi
                 ELSE IF max_rsi = min_rsi THEN Fifty
                 ELSE Mul(Div(Sub(Idx(rsi_values, i), min_rsi),
                              Sub(max_rsi, min_rsi)),
                          Hundred)

StochKAt(rsi_values, i, period, old) ==
    LET window == WindowScan(i - period + 1, i + 1, rsi_values, <<>>)
    IN  IF HasExc(window) THEN FirstExc(window)
        ELSE IF Len(window) < period THEN old
        ELSE LET min_rsi == MinOf(window)
                 max_rsi == MaxOf(window)
             IN  IF IsExc(min_rsi) THEN min_rsi
                 ELSE IF max_rsi = min_rsi THEN Fifty
                 ELSE Mul(Div(Sub(Idx(rsi_values, i), min_rsi),
                              Sub(max_rsi, min_rsi)),
                          Hundred)

RECURSIVE StochKLoop(_, _, _, _)
StochKLoop(i, rsi_values, period, k_values) ==
    IF i >= Len(rsi_values) \/ HasExc(k_values) THEN k_values
    ELSE StochKLoop(i + 1, rsi_values, period,
             SetItem(k_values, i,
                     StochKAt(rsi_values, i, period, Idx(k_values, i))))

calculate_stoch_k(rsi_values, period) ==
    StochKLoop(period - 1, rsi_values, period, NoneList(Len(rsi_values)))

(* ------------------------- _calculate_sma ------------------------------ *)
(* seeded fault: averages whatever the window holds *)
SmaAtPartial(values, i, period, old) ==
    LET window == WindowScan(i - period + 1, i + 1, values, <<>>)
    IN  IF HasExc(window) THEN FirstExc(window)
        ELSE IF Len(window) > 0 THEN Div(Sum(window), FromInt(Len(window)))
        ELSE old

(* seeded fault: the window ends one index before i *)
SmaAtLagged(values, i, period, old) ==
    LET window == WindowScan(i - period, i, values, <<>>)
    IN  IF HasExc(window) THEN FirstExc(window)
        ELSE IF Len(window) = period THEN Div(Sum(window), FromInt(period))
        ELSE old

(* seeded fault: a null in the window counts as 0 *)
SmaAtZeroFill(values, i, period, old) ==
    LET window == WindowScan(i - period + 1, i + 1, values, <<>>)
    IN  IF HasExc(window) THEN FirstExc(window)
        ELSE IF Len(window) > 0 THEN Div(Sum(window), FromInt(period))
        ELSE old

SmaAt(values, i, period, old) ==
    LET window == WindowScan(i - period + 1, i + 1, values, <<>>)
    IN  IF HasExc(window) THEN FirstExc(window)
        ELSE IF Len(window) = period THEN Div(Sum(window), FromInt(period))
        ELSE old

RECURSIVE SmaLoop(_, _, _, _)
SmaLoop(i, values, period, sma_values) ==
    IF i >= Len(values) \/ HasExc(sma_values) THEN sma_values
    ELSE SmaLoop(i + 1, values, period,
             SetItem(sma_values, i,
                     SmaAt(values, i, period, Idx(sma_values, i))))

(* range(period - 1, len(values)) *)
SmaStart(period) == period - 1

calculate_sma(values, period) ==
    SmaLoop(SmaStart(period), values, period, NoneList(Len(values)))

(* ------------------------- StochRSIValue ------------------------------- *)
StochRSIValue(k, d, rsi) == [k |-> k, d |-> d, rsi |-> rsi]

NullReading == StochRSIValue(None, None, None)

(* ------------------------- calculate ----------------------------------- *)
(* __init__: the four fields of a calculator instance *)
NewCalculator(rsi_length, stoch_length, k_smooth, d_smooth) ==
    [rsi_length |-> rsi_length, stoch_length |-> stoch_length,
     k_smooth |-> k_smooth, d_smooth |-> d_smooth]

(* seeded fault: the guard is one unit looser *)
MinClosesLoose(self) ==
    self.rsi_length + self.stoch_length + self.k_smooth + self.d_smooth - 3

MinCloses(self) ==
    self.rsi_length + self.stoch_length + self.k_smooth + self.d_smooth - 2

(* outcome of one call: exc/val as in Return; ids[i] is the identity of the *)
(* object at val[i]; stages lists the stage calls made, in order            *)
Raised(e, called, tr) ==
    [exc |-> e, val |-> <<>>, ids |-> <<>>, stages |-> called, trace |-> tr]

(* [StochRSIValue(k=None, d=None, rsi=None)] * len(closes): one object, *)
(* len(closes) references to it                                        *)
ShortCircuit(cl) ==
    [exc |-> None,
     val |-> [i \in 1..Len(cl) |-> NullReading],
     ids |-> [i \in 1..Len(cl) |-> 1],
     stages |-> <<>>,
     trace |-> <<>>]

(* seeded fault: the result loop starts at index 1 *)
AssembleFromOne(cl, k_smoothed, d_values, rsi_values) ==
    [i \in 1..(IF Len(cl) = 0 THEN 0 ELSE Len(cl) - 1) |->
        StochRSIValue(Idx(k_smoothed, i), Idx(d_values, i), Idx(rsi_values, i))]

(* for i in range(len(closes)): result.append(StochRSIValue(...)) *)
Assemble(cl, k_smoothed, d_values, rsi_values) ==
    [i \in 1..Len(cl) |->
        StochRSIValue(Idx(k_smoothed, i - 1), Idx(d_values, i - 1), Idx(rsi_values, i - 1))]

(* the driver after each stage has returned: an exception raised by a    *)
(* stage ends the call, otherwise its list is handed to the next stage  *)
AfterSmaD(cl, run, k_smoothed, d_values) ==
    IF HasExc(d_values)
    THEN Raised(FirstExc(d_values),
                <<"_calculate_rsi", "_calculate_stoch_k", "_calculate_sma", "_calculate_sma">>,
                run.trace)
    ELSE [exc |-> None,
          val |-> Assemble(cl, k_smoothed, d_values, run.rsi_values),
          ids |-> [i \in 1..Len(cl) |-> i],
          stages |-> <<"_calculate_rsi", "_calculate_stoch_k",
                       "_calculate_sma", "_calculate_sma">>,
          trace |-> run.trace]

AfterSmaK(self, cl, run, k_smoothed) ==
    IF HasExc(k_smoothed)
    THEN Raised(FirstExc(k_smoothed),
                <<"_calculate_rsi", "_calculate_stoch_k", "_calculate_sma">>, run.trace)
    ELSE AfterSmaD(cl, run, k_smoothed, calculate_sma(k_smoothed, self.d_smooth))

(* seeded fault: the raw %K is handed on as k, the first SMA is skipped *)
AfterStochKRaw(self, cl, run, k_values) ==
    IF HasExc(k_values)
    THEN Raised(FirstExc(k_values), <<"_calculate_rsi", "_calculate_stoch_k">>, run.trace)
    ELSE AfterSmaK(self, cl, run, k_values)

AfterStochK(self, cl, run, k_values) ==
    IF HasExc(k_values)
    THEN Raised(FirstExc(k_values), <<"_calculate_rsi", "_calculate_stoch_k">>, run.trace)
    ELSE AfterSmaK(self, cl, run, calculate_sma(k_values, self.k_smooth))

AfterRsi(self, cl, run) ==
    IF HasExc(run.rsi_values)
    THEN Raised(FirstExc(run.rsi_values), <<"_calculate_rsi">>, run.trace)
    ELSE AfterStochK(self, cl, run, calculate_stoch_k(run.rsi_values, self.stoch_length))

calculate(self, cl) ==
    IF Len(cl) < MinCloses(self)
    THEN ShortCircuit(cl)
    ELSE AfterRsi(self, cl, RsiRun(cl, self.rsi_length))

calculate_stoch_rsi(cl, rsi_length, stoch_length, k_smooth, d_smooth) ==
    LET calculator == NewCalculator(rsi_length, stoch_length, k_smooth, d_smooth)
    IN  calculate(calculator, cl)

(* ------------------------- StochRSIDatabase --------------------------- *)
(* rows, candles, history: the tables stoch_rsi_data, candles and          *)
(* stoch_rsi_history, one record per row; symbols: the symbol column of   *)
(* the symbols table; now: the second that CURRENT_TIMESTAMP reads.  The  *)
(* ids of symbols and timeframes only stand for names: a name stands for  *)
(* its id.  Every caller modelled passes volume 0, so every volume is 0   *)
MaxTick == 2

IntegrityError == <<5>>

NewDatabase ==
    [symbols |-> {}, rows |-> {}, candles |-> {}, history |-> {}, now |-> 0]

(* SELECT id FROM symbols WHERE symbol = ?, INSERT INTO symbols if none *)
get_or_create_symbol(self, symbol) ==
    [self EXCEPT !.symbols = @ \cup {symbol}]

(* if x: neither None nor 0 *)
Truthy(x) == x # None /\ x # Zero

(* round(x, 4): to the nearest multiple of 1/10000, ties to the even one *)
Round4(x) ==
    LET sign == IF x[1] < 0 THEN -1 ELSE 1
        g == GCD(x[2], 10000)
        n == AbsInt(x[1]) * (10000 \div g)
        den == x[2] \div g
        q == n \div den
        r == n % den
        m == IF 2 * r < den THEN q
             ELSE IF 2 * r > den THEN q + 1
             ELSE IF q % 2 = 0 THEN q ELSE q + 1
    IN  IF IsExc(x) THEN x
        ELSE IF x = None THEN TypeError
        ELSE Q(sign * m, 10000)

(* round(x, 4) if x else None *)
RoundIfTruthy(x) == IF Truthy(x) THEN Round4(x) ELSE None

(* WHERE symbol_id = ? AND timeframe_id = ? *)
Matching(table, symbol, timeframe) ==
    {r \in table : r.symbol = symbol /\ r.timeframe = timeframe}

(* INSERT with timestamp DEFAULT CURRENT_TIMESTAMP; on the IntegrityError  *)
(* of UNIQUE (symbol_id, timeframe_id, timestamp) the handler runs UPDATE  *)
(* ... SET ..., timestamp = CURRENT_TIMESTAMP on every row of the symbol   *)
(* and timeframe: two such rows would share one timestamp, the UPDATE      *)
(* fails on the same constraint and nothing catches that                   *)
save_stoch_rsi_data(self, symbol, timeframe, k, d, rsi) ==
    LET row == [symbol |-> symbol, timeframe |-> timeframe,
                k_value |-> k, d_value |-> d, rsi_value |-> rsi,
                timestamp |-> self.now]
        matching == Matching(self.rows, symbol, timeframe)
        known == get_or_create_symbol(self, symbol)
    IN  IF \A r \in matching : r.timestamp # self.now
        THEN [exc |-> None, db |-> [known EXCEPT !.rows = @ \cup {row}]]
        ELSE IF Cardinality(matching) > 1
        THEN [exc |-> IntegrityError, db |-> known]
        ELSE [exc |-> None, db |-> [known EXCEPT !.rows = (@ \ matching) \cup {row}]]

(* DELETE the candles of the symbol and timeframe, INSERT closes[i] with  *)
(* open_time i                                                            *)
save_candles(self, symbol, timeframe, cl) ==
    [get_or_create_symbol(self, symbol) EXCEPT !.candles =
        (@ \ Matching(@, symbol, timeframe)) \cup
        {[symbol |-> symbol, timeframe |-> timeframe,
          open_time |-> i - 1, close_price |-> cl[i]] : i \in 1..Len(cl)}]

(* DELETE the history of the symbol and timeframe, INSERT values[i] with  *)
(* sequence i + 1                                                         *)
save_history(self, symbol, timeframe, values) ==
    [get_or_create_symbol(self, symbol) EXCEPT !.history =
        (@ \ Matching(@, symbol, timeframe)) \cup
        {[symbol |-> symbol, timeframe |-> timeframe, sequence |-> i,
          k_value |-> values[i].k, d_value |-> values[i].d,
          rsi_value |-> values[i].rsi] : i \in 1..Len(values)}]

(* SELECT ... ORDER BY timestamp DESC LIMIT 1 *)
get_latest_data(self, symbol, timeframe) ==
    LET matching == Matching(self.rows, symbol, timeframe)
        result == CHOOSE r \in matching :
                      \A o \in matching : o.timestamp <= r.timestamp
    IN  IF matching = {} THEN None
        ELSE [k |-> RoundIfTruthy(result.k_value),
              d |-> RoundIfTruthy(result.d_value),
              rsi |-> RoundIfTruthy(result.rsi_value),
              timestamp |-> result.timestamp]

get_latest_stoch_rsi(self, symbol, timeframe) ==
    get_latest_data(self, symbol, timeframe)

(* ------------------------- api_server ---------------------------------- *)
(* config.TIMEFRAMES *)
TIMEFRAMES == <<"15m", "1h", "4h", "1d">>

(* ORDER BY symbol *)
SymbolOrder == <<"A", "B">>

(* db_lock is either unlocked or held by one of the threads *)
Unlocked == "unlocked"

(* the thread of background_refresh_thread, one thread of run_calc, one   *)
(* request handler of /api/table                                          *)
Threads == {"background_refresh_thread", "run_calc", "get_table"}

(* seeded fault: the lock never blocks *)
CanEnterAlways(lock) == TRUE

(* with db_lock: entered only when no thread holds the lock *)
CanEnter(lock) == lock = Unlocked

(* a dictionary with no key *)
EmptyDict == [key \in {} |-> None]

(* d[key] = value *)
SetKey(d, key, value) ==
    [x \in DOMAIN d \cup {key} |-> IF x = key THEN value ELSE d[x]]

(* a thread's locals: pc where it stands, symbols the list it works on,   *)
(* i and j the positions of its loops over symbols and TIMEFRAMES,        *)
(* new_data the dictionary refresh_cache is building, back where it goes  *)
(* when refresh_cache returns                                             *)
IdleThread ==
    [pc |-> "idle", symbols |-> <<>>, i |-> 0, j |-> 0,
     new_data |-> EmptyDict, back |-> "idle"]

(* srv: db_lock, cache['data'] and the threads, before the server starts *)
ServerDown ==
    [lock |-> Unlocked, data |-> EmptyDict, threads |-> [t \in Threads |-> IdleThread]]

get_status(k_value) ==
    IF Lt(k_value, FromInt(20)) THEN "oversold"
    ELSE IF Gt(k_value, FromInt(80)) THEN "overbought"
    ELSE "neutral"

(* round(float(x), 4) if x else 0 *)
RoundOrZero(x) == IF Truthy(x) THEN Round4(x) ELSE Zero

(* the slot refresh_cache stores for what get_latest_stoch_rsi returned *)
Slot(last_value) ==
    IF last_value # None /\ last_value.k # None
    THEN [k |-> RoundOrZero(last_value.k),
          d |-> RoundOrZero(last_value.d),
          rsi |-> RoundOrZero(last_value.rsi),
          timestamp |-> last_value.timestamp,
          status |-> get_status(IF Truthy(last_value.k) THEN last_value.k ELSE Zero)]
    ELSE None

(* SELECT symbol FROM symbols ORDER BY symbol *)
get_all_symbols(self) == SelectSeq(SymbolOrder, LAMBDA s : s \in self.symbols)

(* the symbols with a volume by volume, then those without by name *)
get_all_symbols_by_volume(self) == get_all_symbols(self)

(* seeded fault: the refresh writes its entries into the cached map *)
PublishMerged(data, new_data) ==
    [s \in DOMAIN data \cup DOMAIN new_data |->
        IF s \in DOMAIN new_data THEN new_data[s] ELSE data[s]]

(* cache['data'] = new_data *)
Publish(data, new_data) == new_data

(* refresh_cache(symbols) run alone, as __main__ runs it before any       *)
(* thread starts                                                          *)
RefreshedData(self, symbols) ==
    [s \in {symbols[i] : i \in 1..Len(symbols)} |->
        [tf \in {TIMEFRAMES[j] : j \in 1..Len(TIMEFRAMES)} |->
            Slot(get_latest_stoch_rsi(self, s, tf))]]


(* ------------------------- state machine ------------------------------- *)
(* the price levels a close may take; two levels give rising, falling and  *)
(* flat deltas                                                             *)
Prices == {FromInt(1), FromInt(2)}

PriceLists == UNION {[1..n -> Prices] : n \in 0..MaxLen}

Periods == 1..MaxLen

(* the configurations of four positive integers whose guard a list of at *)
(* most MaxLen closes can pass                                            *)
Calculators ==
    {c \in {NewCalculator(r, s, k, d) :
                r \in Periods, s \in Periods, k \in Periods, d \in Periods} :
        c.rsi_length + c.stoch_length + c.k_smooth + c.d_smooth - 2 <= MaxLen}

StageOps == {"_calculate_rsi", "_calculate_stoch_k", "_calculate_sma"}

DriverOps == {"calculate", "calculate_stoch_rsi"}

(* ret: what the caller holds from its latest call.  op names the callee, *)
(* self/arg/period are what it was called with, exc/val what it raised   *)
(* or returned, ids the identities of the objects in val, stages the     *)
(* stage calls made so far, trace the running averages of the RSI loop,  *)
(* after the entry point called immediately before an entry point        *)
NoCall ==
    [op |-> "none", after |-> "none", self |-> None, period |-> 0, arg |-> <<>>,
     exc |-> None, val |-> <<>>, ids |-> <<>>, stages |-> <<>>, trace |-> <<>>]

DriverCall(name, self, cl, out) ==
    [op |-> name, after |-> IF ret.op \in DriverOps THEN ret.op ELSE "none",
     self |-> self, period |-> 0, arg |-> cl,
     exc |-> out.exc, val |-> out.val, ids |-> out.ids,
     stages |-> out.stages, trace |-> out.trace]

StageReturn(name, period, list, out, called, tr) ==
    [op |-> name, after |-> "none", self |-> None, period |-> period, arg |-> list,
     exc |-> out.exc, val |-> out.val,
     ids |-> <<>>, stages |-> Append(called, name), trace |-> tr]

StageCall(name, period, list, out, called, tr) ==
    StageReturn(name, period, list, Return(out), called, tr)

RsiCall(period, cl, run) ==
    StageCall("_calculate_rsi", period, cl, run.rsi_values, <<>>, run.trace)

Init ==
    /\ closes \in PriceLists
    /\ calc \in Calculators
    /\ ret = NoCall
    /\ db = NewDatabase
    /\ srv = ServerDown

(* seeded fault: the result list is shared between calls and keeps growing *)
CalculateShared ==
    /\ ret' = DriverCall("calculate", calc, closes,
                         [calculate(calc, closes) EXCEPT
                             !.val = IF ret.op \in DriverOps THEN ret.val \o @ ELSE @])
    /\ UNCHANGED <<closes, calc, db, srv>>

(* seeded fault: the deltas are computed in place, in the caller's list *)
CalculateInPlace ==
    /\ ret' = DriverCall("calculate", calc, closes, calculate(calc, closes))
    /\ closes' = IF closes = <<>> THEN closes ELSE <<closes[1]>> \o Deltas(closes)
    /\ UNCHANGED <<calc, db, srv>>

(* calculator.calculate(closes) on the caller's instance *)
Calculate ==
    /\ ret' = DriverCall("calculate", calc, closes, calculate(calc, closes))
    /\ UNCHANGED <<closes, calc, db, srv>>

(* calculate_stoch_rsi(closes, ...) with the caller's four values: builds a *)
(* calculator of its own                                                    *)
CalculateStochRsi ==
    /\ ret' = DriverCall("calculate_stoch_rsi",
                         NewCalculator(calc.rsi_length, calc.stoch_length,
                                       calc.k_smooth, calc.d_smooth),
                         closes,
                         calculate_stoch_rsi(closes, calc.rsi_length, calc.stoch_length,
                                             calc.k_smooth, calc.d_smooth))
    /\ UNCHANGED <<closes, calc, db, srv>>

(* StochasticRSICalculator._calculate_rsi(closes, period) *)
CallRsi ==
    /\ ret' = RsiCall(calc.rsi_length, closes, RsiRun(closes, calc.rsi_length))
    /\ UNCHANGED <<closes, calc, db, srv>>

(* the static stages applied to the list the previous stage returned, in *)
(* the order the driver chains them: RSI, %K, SMA, SMA                    *)
CallStochK ==
    /\ ret.op = "_calculate_rsi"
    /\ ret.exc = None
    /\ ret' = StageCall("_calculate_stoch_k", calc.stoch_length, ret.val,
                        calculate_stoch_k(ret.val, calc.stoch_length),
                        ret.stages, ret.trace)
    /\ UNCHANGED <<closes, calc, db, srv>>

CallSma ==
    /\ \/ ret.op = "_calculate_stoch_k"
       \/ ret.op = "_calculate_sma" /\ ret.stages[Len(ret.stages) - 1] = "_calculate_stoch_k"
    /\ ret.exc = None
    /\ \E period \in {calc.k_smooth, calc.d_smooth} :
          ret' = StageCall("_calculate_sma", period, ret.val,
                           calculate_sma(ret.val, period),
                           ret.stages, ret.trace)
    /\ UNCHANGED <<closes, calc, db, srv>>

(* callers of the public entry points *)
Next ==
    \/ Calculate
    \/ CalculateStochRsi

Spec == Init /\ [][Next]_vars

(* callers of the three static stages, one stage at a time *)
StageNext ==
    \/ CallRsi
    \/ CallStochK
    \/ CallSma

StageSpec == Init /\ [][StageNext]_vars

(* callers that mix the entry points and the stages in any order *)
AllNext ==
    \/ Next
    \/ StageNext

AllSpec == Init /\ [][AllNext]_vars

(* ------------------------- window scans on any list -------------------- *)
(* the static window scans take any List[Optional[float]]: a caller that  *)
(* holds such a list, nulls anywhere in it, and applies one scan to it    *)
OptValues == {None, Zero, FromInt(40), Hundred}

OptLists == UNION {[1..n -> OptValues] : n \in 0..MaxLen}

(* one period for every window *)
ScanCalculators == {NewCalculator(p, p, p, p) : p \in Periods}

HeldList(list) == [NoCall EXCEPT !.op = "list", !.val = list]

ListInit ==
    /\ closes = <<>>
    /\ calc \in ScanCalculators
    /\ ret \in {HeldList(list) : list \in OptLists}
    /\ db = NewDatabase
    /\ srv = ServerDown

(* StochasticRSICalculator._calculate_stoch_k(values, period) *)
ScanStochK ==
    /\ ret.op = "list"
    /\ ret' = StageCall("_calculate_stoch_k", calc.stoch_length, ret.val,
                        calculate_stoch_k(ret.val, calc.stoch_length), <<>>, <<>>)
    /\ UNCHANGED <<closes, calc, db, srv>>

(* StochasticRSICalculator._calculate_sma(values, period) *)
ScanSma ==
    /\ ret.op = "list"
    /\ ret' = StageCall("_calculate_sma", calc.k_smooth, ret.val,
                        calculate_sma(ret.val, calc.k_smooth), <<>>, <<>>)
    /\ UNCHANGED <<closes, calc, db, srv>>

ListNext ==
    \/ ScanStochK
    \/ ScanSma

ListSpec == ListInit /\ [][ListNext]_vars

(* ------------------------- the monotone rise --------------------------- *)
(* closes that rise by one each period, under rsi_length = 2,             *)
(* stoch_length = 2, k_smooth = 1, d_smooth = 1                           *)
Scenario ==
    <<FromInt(1), FromInt(2), FromInt(3), FromInt(4),
      FromInt(5), FromInt(6), FromInt(7), FromInt(8)>>

ScenarioCalculator == NewCalculator(2, 2, 1, 1)

(* the rise as it grows close by close, next to the two-level lists *)
ScenarioLists == PriceLists \cup {Prefix(Scenario, n) : n \in 0..Len(Scenario)}

ScenarioInit ==
    /\ closes \in ScenarioLists
    /\ calc \in Calculators \cup {ScenarioCalculator}
    /\ ret = NoCall
    /\ db = NewDatabase
    /\ srv = ServerDown

ScenarioNext ==
    \/ Calculate
    \/ CallRsi

ScenarioSpec == ScenarioInit /\ [][ScenarioNext]_vars

(* ------------------------- a caller that writes a reading ------------- *)
(* StochRSIValue is a plain (unfrozen) dataclass: a caller may assign a   *)
(* field of a reading it got back                                         *)
Fields == {"k", "d", "rsi"}

Written == FromInt(7)

(* result[i].field = Written: every position of the list that refers to  *)
(* the object at position i shows the new value.  ret.arg keeps the       *)
(* readings as they were, ret.period the index i                          *)
SetAttr ==
    /\ ret.op \in DriverOps
    /\ ret.exc = None
    /\ \E i \in 0..(Len(ret.val) - 1), field \in Fields :
          ret' = [ret EXCEPT
                     !.op = "setattr",
                     !.period = i,
                     !.arg = ret.val,
                     !.val = [j \in 1..Len(ret.val) |->
                                 IF ret.ids[j] = ret.ids[i + 1]
                                 THEN [ret.val[j] EXCEPT ![field] = Written]
                                 ELSE ret.val[j]]]
    /\ UNCHANGED <<closes, calc, db, srv>>

(* one call of calculate, then assignments to the readings it returned *)
FirstCalculate == ret.op = "none" /\ Calculate

FreshNext ==
    \/ FirstCalculate
    \/ SetAttr

FreshSpec == Init /\ [][FreshNext]_vars

(* ------------------------- StochRSICalculatorCore --------------------- *)
(* calculate_stoch_rsi(closes): the default lengths of the signature *)
DefaultCalculator == NewCalculator(14, 14, 3, 3)

(* valid_values[-5:] *)
LastFive(values) ==
    SubSeq(values, IF Len(values) > 5 THEN Len(values) - 4 ELSE 1, Len(values))

(* the dictionary of lines 60-77 *)
PairResult(symbol, interval, cl, last_values, current) ==
    [symbol |-> symbol,
     timeframe |-> interval,
     total_candles |-> Len(cl),
     last_values |-> [i \in 1..Len(last_values) |->
                         [k |-> Round4(last_values[i].k),
                          d |-> Round4(last_values[i].d),
                          rsi |-> RoundIfTruthy(last_values[i].rsi)]],
     current |-> [k |-> RoundIfTruthy(current.k),
                  d |-> RoundIfTruthy(current.d),
                  rsi |-> RoundIfTruthy(current.rsi)]]

(* the dictionaries handed to save_history *)
HistoryValues(last_values) ==
    [i \in 1..Len(last_values) |->
        [k |-> last_values[i].k,
         d |-> last_values[i].d,
         rsi |-> IF Truthy(last_values[i].rsi) THEN last_values[i].rsi ELSE Zero]]

(* seeded fault: the test before the saves stops at `current` *)
HasReading(current) == current # None

(* current and current.k is not None and current.d is not None *)
HasKAndD(current) == current # None /\ current.k # None /\ current.d # None

(* outcome of calculate_pair: exc/val what it raised or returned, db the  *)
(* database afterwards, stages the calls it made, in order                *)
PairOutcome(exc, val, self, called) ==
    [exc |-> exc, val |-> val, db |-> self, stages |-> called]

(* the save block of lines 81-102; an exception of save_stoch_rsi_data is *)
(* not caught and ends the call before the two other saves                *)
SaveComplete(self, symbol, interval, cl, last_values, current, result, called) ==
    LET saved == save_stoch_rsi_data(self, symbol, interval,
                                     current.k, current.d, current.rsi)
        candles == save_candles(saved.db, symbol, interval, cl)
        history == save_history(candles, symbol, interval, HistoryValues(last_values))
    IN  IF saved.exc # None
        THEN PairOutcome(saved.exc, None, saved.db,
                         Append(called, "save_stoch_rsi_data"))
        ELSE PairOutcome(None, result, history,
                         called \o <<"save_stoch_rsi_data", "save_candles", "save_history">>)

(* calculate_pair(symbol, interval) on the database self, kl being what   *)
(* self.client.get_klines returns and core what calculate_stoch_rsi(kl)   *)
(* gives for it                                                           *)
calculate_pair(self, symbol, interval, kl, core) ==
    LET stoch_rsi_values == core.val
        valid_values == SelectSeq(stoch_rsi_values,
                                  LAMBDA v : v.k # None /\ v.d # None)
        last_values == LastFive(valid_values)
        current == stoch_rsi_values[Len(stoch_rsi_values)]
        result == PairResult(symbol, interval, kl, last_values, current)
        called == <<"get_klines", "calculate_stoch_rsi">>
    IN  IF kl = <<>>
        THEN PairOutcome(None, [symbol |-> symbol, error |-> "no prices"],
                         self, <<"get_klines">>)
        ELSE IF core.exc # None
        THEN PairOutcome(core.exc, None, self, called)
        ELSE IF HasKAndD(current)
        THEN SaveComplete(self, symbol, interval, kl, last_values, current,
                          result, called)
        ELSE PairOutcome(None, result, self, called)

(* ------------------------- callers of the database -------------------- *)
Symbols == {"A", "B"}

(* the readings a caller saves: a zero among them, and a value that       *)
(* rounding changes                                                       *)
SavedReadings ==
    {StochRSIValue(Zero, Fifty, Zero),
     StochRSIValue(Q(200, 3), Q(100, 3), Q(1, 100000))}

DbCall(name, args, exc, val) ==
    [NoCall EXCEPT !.op = name, !.arg = args, !.exc = exc, !.val = val]

DbInit ==
    /\ closes = <<>>
    /\ calc = NewCalculator(14, 14, 3, 3)
    /\ ret = NoCall
    /\ db = NewDatabase
    /\ srv = ServerDown

(* db.save_stoch_rsi_data(symbol, "1d", k, d, rsi) *)
SaveStochRsiData ==
    /\ \E symbol \in Symbols, v \in SavedReadings :
          LET out == save_stoch_rsi_data(db, symbol, "1d", v.k, v.d, v.rsi)
          IN  /\ ret' = DbCall("save_stoch_rsi_data",
                               [symbol |-> symbol, timeframe |-> "1d", saved |-> v],
                               out.exc, None)
              /\ db' = out.db
    /\ UNCHANGED <<closes, calc, srv>>

(* db.get_latest_data(symbol, "1d") *)
GetLatestData ==
    /\ \E symbol \in Symbols :
          ret' = DbCall("get_latest_data",
                        [symbol |-> symbol, timeframe |-> "1d"],
                        None, get_latest_data(db, symbol, "1d"))
    /\ UNCHANGED <<closes, calc, db, srv>>

(* db.get_latest_stoch_rsi(symbol, "1d") *)
GetLatestStochRsi ==
    /\ \E symbol \in Symbols :
          ret' = DbCall("get_latest_stoch_rsi",
                        [symbol |-> symbol, timeframe |-> "1d"],
                        None, get_latest_stoch_rsi(db, symbol, "1d"))
    /\ UNCHANGED <<closes, calc, db, srv>>

(* a second passes *)
Tick ==
    /\ db.now < MaxTick
    /\ db' = [db EXCEPT !.now = @ + 1]
    /\ UNCHANGED <<closes, calc, ret, srv>>

DbNext ==
    \/ SaveStochRsiData
    \/ GetLatestData
    \/ GetLatestStochRsi
    \/ Tick

DbSpec == DbInit /\ [][DbNext]_vars

(* ------------------------- callers of calculate_pair ------------------- *)
(* closes around the guard of the default lengths: one close too few;   *)
(* flat (rsi 0); rising with three last steps down (k 0); rising with a  *)
(* last step down, one close more than the guard asks                    *)
FlatCloses(n) == [i \in 1..n |-> FromInt(100)]

TurnCloses(n) == [i \in 1..n |-> FromInt(IF i <= n - 3 THEN 100 + i ELSE 100 + 2 * (n - 3) - i)]

DropCloses(n) == [i \in 1..n |-> FromInt(IF i < n THEN 100 + i ELSE 100 + i - 2)]

LongLists ==
    {FlatCloses(MinCloses(DefaultCalculator) - 1),
     FlatCloses(MinCloses(DefaultCalculator)),
     TurnCloses(MinCloses(DefaultCalculator)),
     DropCloses(MinCloses(DefaultCalculator) + 1)}

(* closes too short for the default lengths *)
ShortLists == {[i \in 1..n |-> FromInt(100 + i)] : n \in {0, MaxLen}}

(* what get_klines may return: [] on a request error, else the closes *)
Klines == ShortLists \cup LongLists

(* calculate_stoch_rsi(kl) for each kl of Klines *)
CoreReadings ==
    {[closes |-> kl,
      readings |-> calculate_stoch_rsi(kl, DefaultCalculator.rsi_length,
                                       DefaultCalculator.stoch_length,
                                       DefaultCalculator.k_smooth,
                                       DefaultCalculator.d_smooth)] : kl \in Klines}

CoreOf(kl) == (CHOOSE r \in CoreReadings : r.closes = kl).readings

(* the pair whose calculation is followed *)
PairSymbols == {"A"}

PairInit ==
    /\ closes = <<>>
    /\ calc = DefaultCalculator
    /\ ret = NoCall
    /\ db = NewDatabase
    /\ srv = ServerDown

(* calculator.calculate_pair(symbol, "1d") *)
CalculatePair ==
    /\ \E symbol \in PairSymbols, kl \in Klines :
          LET out == calculate_pair(db, symbol, "1d", kl, CoreOf(kl))
          IN  /\ closes' = kl
              /\ ret' = [NoCall EXCEPT !.op = "calculate_pair",
                                       !.arg = [symbol |-> symbol, timeframe |-> "1d"],
                                       !.exc = out.exc, !.val = out.val,
                                       !.stages = out.stages]
              /\ db' = out.db
    /\ UNCHANGED <<calc, srv>>

PairNext ==
    \/ CalculatePair
    \/ Tick

PairSpec == PairInit /\ [][PairNext]_vars

(* ------------------------- threads of api_server ----------------------- *)
(* the database as main.py left it: both pairs calculated and saved *)
StartupDatabase ==
    LET first == calculate_pair(NewDatabase, "A", "1d",
                                FlatCloses(MinCloses(DefaultCalculator)),
                                CoreOf(FlatCloses(MinCloses(DefaultCalculator)))).db
    IN  calculate_pair(first, "B", "1d",
                       DropCloses(MinCloses(DefaultCalculator) + 1),
                       CoreOf(DropCloses(MinCloses(DefaultCalculator) + 1))).db

(* symbols = db.get_all_symbols() of __main__: the list the background    *)
(* thread keeps                                                           *)
StartupSymbols == get_all_symbols(StartupDatabase)

(* what get_klines returns to the calculate_pair of run_calc *)
ServerKlines == {<<>>, TurnCloses(MinCloses(DefaultCalculator))}

(* the symbols parameter of /api/table: absent, or a list of symbols *)
TableParams == {None, <<"A">>, <<"B">>}

(* __main__ after refresh_cache(symbols) and refresh_thread.start() *)
ServerInit ==
    /\ closes = <<>>
    /\ calc = DefaultCalculator
    /\ ret = NoCall
    /\ db = StartupDatabase
    /\ srv = [ServerDown EXCEPT !.data = RefreshedData(StartupDatabase, StartupSymbols)]

(* entry of refresh_cache(symbols): new_data = {} *)
EnterRefresh(symbols, back) ==
    [pc |-> IF symbols = <<>> THEN "assign" ELSE "acquire",
     symbols |-> symbols, i |-> 1, j |-> 1, new_data |-> EmptyDict, back |-> back]

(* background_refresh_thread: refresh_cache(symbols) after each sleep *)
BackgroundRefresh ==
    /\ srv.threads["background_refresh_thread"].pc = "idle"
    /\ srv' = [srv EXCEPT !.threads["background_refresh_thread"] =
                              EnterRefresh(StartupSymbols, "idle")]
    /\ UNCHANGED <<closes, calc, ret, db>>

(* refresh_cache: with db_lock *)
RefreshAcquire ==
    /\ \E t \in Threads :
          /\ srv.threads[t].pc = "acquire"
          /\ CanEnter(srv.lock)
          /\ srv' = [srv EXCEPT !.lock = t, !.threads[t].pc = "read"]
    /\ UNCHANGED <<closes, calc, ret, db>>

(* refresh_cache: db.get_latest_stoch_rsi(symbol, timeframe) under the    *)
(* lock, then the slot of new_data[symbol][timeframe]                     *)
RefreshRead ==
    /\ \E t \in Threads :
          LET th == srv.threads[t]
              symbol == th.symbols[th.i]
              timeframe == TIMEFRAMES[th.j]
              slots == IF th.j = 1 THEN EmptyDict ELSE th.new_data[symbol]
              new_data == SetKey(th.new_data, symbol,
                                 SetKey(slots, timeframe,
                                        Slot(get_latest_stoch_rsi(db, symbol, timeframe))))
              last == th.j = Len(TIMEFRAMES)
          IN  /\ th.pc = "read"
              /\ srv' = [srv EXCEPT
                            !.lock = Unlocked,
                            !.threads[t] =
                               [th EXCEPT !.new_data = new_data,
                                          !.j = IF last THEN 1 ELSE th.j + 1,
                                          !.i = IF last THEN th.i + 1 ELSE th.i,
                                          !.pc = IF last /\ th.i = Len(th.symbols)
                                                 THEN "assign" ELSE "acquire"]]
    /\ UNCHANGED <<closes, calc, ret, db>>

(* refresh_cache: cache['data'] = new_data, and the return to the caller *)
RefreshAssign ==
    /\ \E t \in Threads :
          LET th == srv.threads[t]
          IN  /\ th.pc = "assign"
              /\ srv' = [srv EXCEPT
                            !.data = Publish(srv.data, th.new_data),
                            !.threads[t] =
                               IF th.back = "rows"
                               THEN [IdleThread EXCEPT !.pc = "rows",
                                                       !.symbols = th.symbols,
                                                       !.i = 1, !.j = 1]
                               ELSE IdleThread]
    /\ UNCHANGED <<closes, calc, ret, db>>

(* POST /api/calculate: starts run_calc for the symbol *)
CalculateRequest ==
    /\ srv.threads["run_calc"].pc = "idle"
    /\ \E symbol \in Symbols :
          srv' = [srv EXCEPT !.threads["run_calc"] =
                                [IdleThread EXCEPT !.pc = "calc_acquire",
                                                   !.symbols = <<symbol>>]]
    /\ UNCHANGED <<closes, calc, ret, db>>

(* run_calc: with db_lock *)
CalcAcquire ==
    /\ srv.threads["run_calc"].pc = "calc_acquire"
    /\ CanEnter(srv.lock)
    /\ srv' = [srv EXCEPT !.lock = "run_calc", !.threads["run_calc"].pc = "calc_inside"]
    /\ UNCHANGED <<closes, calc, ret, db>>

(* run_calc: calculator.calculate_pair(symbol, timeframe) under the lock; *)
(* then refresh_cache([symbol]), unless calculate_pair raised             *)
CalcPair ==
    /\ srv.threads["run_calc"].pc = "calc_inside"
    /\ \E kl \in ServerKlines :
          LET symbol == srv.threads["run_calc"].symbols[1]
              out == calculate_pair(db, symbol, "1d", kl, CoreOf(kl))
          IN  /\ db' = out.db
              /\ srv' = [srv EXCEPT
                            !.lock = Unlocked,
                            !.threads["run_calc"] =
                               IF out.exc # None THEN IdleThread
                               ELSE EnterRefresh(<<symbol>>, "idle")]
    /\ UNCHANGED <<closes, calc, ret>>

(* GET /api/table with a cache that is not empty *)
TableRequest ==
    /\ srv.threads["get_table"].pc = "idle"
    /\ DOMAIN srv.data # {}
    /\ \E symbols \in TableParams :
          srv' = [srv EXCEPT !.threads["get_table"] =
                                IF symbols = None
                                THEN [IdleThread EXCEPT !.pc = "symbols_acquire"]
                                ELSE [IdleThread EXCEPT !.pc = "volume_acquire",
                                                        !.symbols = symbols, !.i = 1]]
    /\ UNCHANGED <<closes, calc, ret, db>>

(* get_table: with db_lock *)
TableSymbolsAcquire ==
    /\ srv.threads["get_table"].pc = "symbols_acquire"
    /\ CanEnter(srv.lock)
    /\ srv' = [srv EXCEPT !.lock = "get_table",
                          !.threads["get_table"].pc = "symbols_read"]
    /\ UNCHANGED <<closes, calc, ret, db>>

(* get_table: symbols = db.get_all_symbols_by_volume() under the lock *)
TableSymbolsRead ==
    /\ srv.threads["get_table"].pc = "symbols_read"
    /\ srv' = [srv EXCEPT !.lock = Unlocked,
                          !.threads["get_table"].pc = "check",
                          !.threads["get_table"].symbols = get_all_symbols_by_volume(db)]
    /\ UNCHANGED <<closes, calc, ret, db>>

(* get_symbol_volume(s), the key of sorted(symbols, ...): with db_lock *)
VolumeAcquire ==
    /\ srv.threads["get_table"].pc = "volume_acquire"
    /\ CanEnter(srv.lock)
    /\ srv' = [srv EXCEPT !.lock = "get_table",
                          !.threads["get_table"].pc = "volume_read"]
    /\ UNCHANGED <<closes, calc, ret, db>>

(* get_symbol_volume(s): the SELECT under the lock; every volume is 0 and *)
(* the sort keeps the order of the parameter                              *)
VolumeRead ==
    /\ LET th == srv.threads["get_table"]
       IN  /\ th.pc = "volume_read"
           /\ srv' = [srv EXCEPT
                         !.lock = Unlocked,
                         !.threads["get_table"] =
                            IF th.i = Len(th.symbols)
                            THEN [th EXCEPT !.pc = "check", !.i = 0]
                            ELSE [th EXCEPT !.pc = "volume_acquire", !.i = th.i + 1]]
    /\ UNCHANGED <<closes, calc, ret, db>>

(* get_table: refresh_cache(symbols) if the cache has expired *)
TableCheck ==
    /\ LET th == srv.threads["get_table"]
       IN  /\ th.pc = "check"
           /\ \E expired \in BOOLEAN :
                 srv' = [srv EXCEPT !.threads["get_table"] =
                            IF DOMAIN srv.data = {} \/ expired
                            THEN EnterRefresh(th.symbols, "rows")
                            ELSE [th EXCEPT !.pc = "rows", !.i = 1, !.j = 1]]
    /\ UNCHANGED <<closes, calc, ret, db>>

(* get_table: cache['data'].get(symbol, {}).get(timeframe), one read of   *)
(* cache['data'] for each symbol and timeframe                            *)
TableRow ==
    /\ LET th == srv.threads["get_table"]
           last == th.j = Len(TIMEFRAMES)
       IN  /\ th.pc = "rows"
           /\ srv' = [srv EXCEPT !.threads["get_table"] =
                         IF th.symbols = <<>> \/ (last /\ th.i = Len(th.symbols))
                         THEN IdleThread
                         ELSE [th EXCEPT !.j = IF last THEN 1 ELSE th.j + 1,
                                         !.i = IF last THEN th.i + 1 ELSE th.i]]
    /\ UNCHANGED <<closes, calc, ret, db>>

ServerNext ==
    \/ BackgroundRefresh
    \/ RefreshAcquire
    \/ RefreshRead
    \/ RefreshAssign
    \/ CalculateRequest
    \/ CalcAcquire
    \/ CalcPair
    \/ TableRequest
    \/ TableSymbolsAcquire
    \/ TableSymbolsRead
    \/ VolumeAcquire
    \/ VolumeRead
    \/ TableCheck
    \/ TableRow

ServerSpec == ServerInit /\ [][ServerNext]_vars

(* ========================= properties ================================== *)
Threshold(c) == c.rsi_length + c.stoch_length + c.k_smooth + c.d_smooth - 2

FirstValidIndex(c) == c.rsi_length + c.stoch_length + c.k_smooth + c.d_smooth - 3

FullyNull(r) == r.k = None /\ r.d = None /\ r.rsi = None

Flat(cl) == \A i \in 1..Len(cl) : cl[i] = cl[1]

(* C1: calculate and calculate_stoch_rsi return normally with exactly      *)
(* len(closes) readings, on the short-circuit and on the full path.        *)
C1_LengthInvariant ==
    ret.op \in DriverOps => ret.exc = None /\ Len(ret.val) = Len(closes)

C1_Witness ==
    /\ ret.op = "calculate"
    /\ ret.stages # <<>>
    /\ Len(ret.val) = MaxLen

(* C2: below the guard threshold rsi_length + stoch_length + k_smooth +    *)
(* d_smooth - 2 no stage runs and every reading returned is fully null.    *)
C2_ShortCircuit ==
    (ret.op \in DriverOps /\ Len(closes) < Threshold(calc)) =>
        /\ ret.exc = None
        /\ ret.stages = <<>>
        /\ Len(ret.val) = Len(closes)
        /\ \A i \in 1..Len(ret.val) : FullyNull(ret.val[i])

C2_Witness ==
    /\ ret.op = "calculate_stoch_rsi"
    /\ Len(closes) > 0
    /\ Len(closes) = Threshold(calc) - 1
    /\ ret.stages = <<>>

(* C3 as stated: every reading below index rsi_length + stoch_length +     *)
(* k_smooth + d_smooth - 3 has k, d and rsi all null.                      *)
C3_NullPrefixAllFields ==
    ret.op \in DriverOps =>
        \A i \in 1..Len(ret.val) :
            i - 1 < FirstValidIndex(calc) => FullyNull(ret.val[i])

(* C3 as amended: below index rsi_length + stoch_length + k_smooth +       *)
(* d_smooth - 3 the d field is null; k is null below rsi_length +          *)
(* stoch_length + k_smooth - 2 and rsi below rsi_length.                   *)
C3_NullPrefix ==
    ret.op \in DriverOps =>
        \A i \in 1..Len(ret.val) :
            /\ i - 1 < FirstValidIndex(calc) => ret.val[i].d = None
            /\ i - 1 < calc.rsi_length + calc.stoch_length + calc.k_smooth - 2
                  => ret.val[i].k = None
            /\ i - 1 < calc.rsi_length => ret.val[i].rsi = None

C3_Witness ==
    /\ ret.op \in DriverOps
    /\ \E i \in 1..Len(ret.val) :
          /\ i - 1 < FirstValidIndex(calc)
          /\ ret.val[i].rsi # None
          /\ ret.val[i].k # None
          /\ ret.val[i].d = None

(* C4: when the guard passes, d is null exactly at the indices below       *)
(* rsi_length + stoch_length + k_smooth + d_smooth - 3, and the last       *)
(* reading has k, d and rsi all non-null.                                  *)
C4_ExactFirstValid ==
    (ret.op \in DriverOps /\ Len(closes) >= Threshold(calc)) =>
        /\ ret.exc = None
        /\ Len(ret.val) = Len(closes)
        /\ \A i \in 1..Len(ret.val) :
              (ret.val[i].d = None) <=> (i - 1 < FirstValidIndex(calc))
        /\ ret.val[Len(ret.val)].k # None
        /\ ret.val[Len(ret.val)].d # None
        /\ ret.val[Len(ret.val)].rsi # None

C4_Witness ==
    /\ ret.op = "calculate"
    /\ Len(closes) > Threshold(calc)
    /\ FirstValidIndex(calc) > calc.rsi_length
    /\ ret.val[FirstValidIndex(calc)].d = None
    /\ ret.val[FirstValidIndex(calc) + 1].d # None
    /\ ret.val[Len(closes)].d # None

(* C5: no call raises: calculate, calculate_stoch_rsi and each stage       *)
(* return normally for every configuration and every price list, however   *)
(* short or degenerate.                                                    *)
C5_NoException == ret.exc = None

C5_Witness ==
    /\ ret.op = "calculate"
    /\ ret.stages # <<>>
    /\ Len(closes) >= 3
    /\ Flat(closes)
    /\ ret.exc = None

C7_Purity == [][closes' = closes /\ calc' = calc]_vars

C7_Witness ==
    /\ ret.op = "calculate"
    /\ ret.after = "calculate"
    /\ ret.stages # <<>>
    /\ closes # <<>>

(* C8: _calculate_rsi returns len(closes) entries; with fewer than         *)
(* period + 1 closes all are null, otherwise exactly the entries at        *)
(* indices 0..period-1 are null.                                           *)
C8_RsiWarmUp ==
    ret.op = "_calculate_rsi" =>
        /\ ret.exc = None
        /\ Len(ret.val) = Len(closes)
        /\ \A i \in 1..Len(ret.val) :
              (ret.val[i] = None) <=>
                  (Len(closes) < ret.period + 1 \/ i - 1 < ret.period)

C8_Witness ==
    /\ ret.op = "_calculate_rsi"
    /\ Len(closes) >= ret.period + 2
    /\ ret.val[ret.period] = None
    /\ ret.val[ret.period + 1] # None
    /\ ret.val[Len(closes)] # None

(* C9: at the seed index and at every smoothed index, a running average    *)
(* loss of 0 gives RSI 100 when the running average gain is positive and   *)
(* 0 otherwise, and no division by zero is raised.                         *)
C9_ZeroLossRule ==
    ret.op = "_calculate_rsi" =>
        /\ ret.exc # ZeroDivisionError
        /\ \A n \in 1..Len(ret.trace) :
              ret.trace[n].avg_loss = Zero =>
                  ret.val[ret.trace[n].i + 1] =
                      (IF Gt(ret.trace[n].avg_gain, Zero) THEN Hundred ELSE Zero)

C9_Witness ==
    /\ ret.op = "_calculate_rsi"
    /\ \E n \in 1..Len(ret.trace) :
          /\ ret.trace[n].i > ret.period
          /\ ret.trace[n].avg_loss = Zero
          /\ Gt(ret.trace[n].avg_gain, Zero)
          /\ ret.val[ret.trace[n].i + 1] = Hundred
    /\ \E n \in 1..Len(ret.trace) :
          /\ ret.trace[n].avg_loss # Zero

(* the reference of C10, written over the prices directly *)
RefMove(cl, i, kind) ==
    LET delta == Sub(cl[i + 1], cl[i])
    IN  IF kind = "gain" THEN (IF Gt(delta, Zero) THEN delta ELSE Zero)
        ELSE (IF Lt(delta, Zero) THEN Sub(Zero, delta) ELSE Zero)

RECURSIVE RefSum(_, _, _)
RefSum(cl, n, kind) ==
    IF n = 0 THEN Zero ELSE Add(RefSum(cl, n - 1, kind), RefMove(cl, n, kind))

RECURSIVE RefAvg(_, _, _, _)
RefAvg(cl, period, i, kind) ==
    IF i = period THEN Div(RefSum(cl, period, kind), FromInt(period))
    ELSE Div(Add(Mul(RefAvg(cl, period, i - 1, kind), FromInt(period - 1)),
                 RefMove(cl, i, kind)),
             FromInt(period))

RefRsi(avg_gain, avg_loss) ==
    IF avg_loss # Zero
    THEN Sub(Hundred, Div(Hundred, Add(One, Div(avg_gain, avg_loss))))
    ELSE IF Gt(avg_gain, Zero) THEN Hundred ELSE Zero

(* C10: the RSI stage seeds the averages at index period with the means of *)
(* the first period gains and losses, smooths them by                      *)
(* (avg * (period - 1) + x_i) / period with x_i taken from                 *)
(* price[i] - price[i-1], and its output equals 100 - 100 / (1 + RS).      *)
C10_WilderReference ==
    (ret.op = "_calculate_rsi" /\ Len(closes) >= ret.period + 1) =>
        /\ ret.exc = None
        /\ Len(ret.trace) = Len(closes) - ret.period
        /\ \A i \in ret.period..(Len(closes) - 1) :
              LET g == RefAvg(closes, ret.period, i, "gain")
                  l == RefAvg(closes, ret.period, i, "loss")
              IN  /\ ret.trace[i - ret.period + 1] =
                        [i |-> i, avg_gain |-> g, avg_loss |-> l]
                  /\ ret.val[i + 1] = RefRsi(g, l)

C10_Witness ==
    /\ ret.op = "_calculate_rsi"
    /\ ret.period >= 2
    /\ Len(closes) >= ret.period + 2
    /\ ret.val[Len(closes)] \notin {None, Zero, Hundred}
    /\ ret.val[Len(closes)] # ret.val[Len(closes) - 1]

(* C11: when the first period + 1 prices are all equal, _calculate_rsi puts *)
(* the number 0, not null, at index period; when the whole list is flat    *)
(* it puts 0 at every index from period on.                                *)
C11_FlatSeriesRsi ==
    (ret.op = "_calculate_rsi" /\ Len(closes) >= ret.period + 1) =>
        /\ ret.exc = None
        /\ Flat(SubSeq(closes, 1, ret.period + 1)) => ret.val[ret.period + 1] = Zero
        /\ Flat(closes) =>
              \A i \in (ret.period + 1)..Len(closes) : ret.val[i] = Zero

C11_Witness ==
    /\ ret.op = "_calculate_rsi"
    /\ Len(closes) >= ret.period + 2
    /\ Flat(SubSeq(closes, 1, ret.period + 1))
    /\ ~Flat(closes)
    /\ ret.val[ret.period + 1] = Zero
    /\ ret.val[Len(closes)] # Zero

(* the trailing window of index i (0-based), as positions of the list *)
Window(i, period) == (i - period + 2)..(i + 1)

NonNullCount(list, i, period) ==
    Cardinality({j \in Window(i, period) : list[j] # None})

(* index i has a window and all period entries of it are numbers *)
Complete(list, i, period) ==
    i >= period - 1 /\ NonNullCount(list, i, period) >= period

RefMin(list, i, period) ==
    CHOOSE v \in {list[j] : j \in Window(i, period)} :
        \A j \in Window(i, period) : ~Lt(list[j], v)

RefMax(list, i, period) ==
    CHOOSE v \in {list[j] : j \in Window(i, period)} :
        \A j \in Window(i, period) : ~Gt(list[j], v)

RECURSIVE RefTotal(_, _, _)
RefTotal(list, lo, hi) ==
    IF lo > hi THEN Zero ELSE Add(list[lo], RefTotal(list, lo + 1, hi))

RefMean(list, i, period) ==
    Div(RefTotal(list, i - period + 2, i + 1), FromInt(period))

(* C12: _calculate_stoch_k returns a list as long as its input; at an index *)
(* i >= period - 1 whose window rsi[i-period+1..i] holds period numbers    *)
(* with max # min the entry is (rsi[i] - min) / (max - min) * 100; at an   *)
(* index below period - 1, or whose window holds fewer than period         *)
(* numbers, the entry is null.                                             *)
C12_StochasticReference ==
    ret.op = "_calculate_stoch_k" =>
        /\ ret.exc = None
        /\ Len(ret.val) = Len(ret.arg)
        /\ \A i \in 0..(Len(ret.arg) - 1) :
              IF ~Complete(ret.arg, i, ret.period)
              THEN ret.val[i + 1] = None
              ELSE RefMax(ret.arg, i, ret.period) # RefMin(ret.arg, i, ret.period) =>
                       ret.val[i + 1] =
                           Mul(Div(Sub(ret.arg[i + 1], RefMin(ret.arg, i, ret.period)),
                                   Sub(RefMax(ret.arg, i, ret.period),
                                       RefMin(ret.arg, i, ret.period))),
                               Hundred)

C12_Witness ==
    /\ ret.op = "_calculate_stoch_k"
    /\ ret.period >= 2
    /\ \E i \in 0..(Len(ret.arg) - 1) :
          /\ Complete(ret.arg, i, ret.period)
          /\ ret.val[i + 1] \notin {None, Zero, Fifty, Hundred}
    /\ \E i \in (ret.period - 1)..(Len(ret.arg) - 1) :
          /\ ret.arg[i + 1] # None
          /\ ~Complete(ret.arg, i, ret.period)
          /\ ret.val[i + 1] = None

(* C13: at an index whose window holds period numbers that are all equal,  *)
(* _calculate_stoch_k puts exactly 50, neither null nor 0 nor 100, and     *)
(* raises no division by zero.                                             *)
C13_FlatWindowNeutral ==
    ret.op = "_calculate_stoch_k" =>
        /\ ret.exc # ZeroDivisionError
        /\ \A i \in 0..(Len(ret.val) - 1) :
              (/\ Complete(ret.arg, i, ret.period)
               /\ \A j \in Window(i, ret.period) : ret.arg[j] = ret.arg[i + 1])
              => ret.val[i + 1] = Fifty

C13_Witness ==
    /\ ret.op = "_calculate_stoch_k"
    /\ ret.period >= 2
    /\ \E i \in 0..(Len(ret.val) - 1) :
          /\ Complete(ret.arg, i, ret.period)
          /\ \A j \in Window(i, ret.period) : ret.arg[j] = Hundred
          /\ ret.val[i + 1] = Fifty
    /\ \E i \in 0..(Len(ret.val) - 1) : ret.val[i + 1] = Hundred

(* C14: _calculate_sma returns a list as long as its input; the entry at i *)
(* is a number exactly when i >= period - 1 and all period entries of      *)
(* values[i-period+1..i] are numbers, and is then their sum divided by     *)
(* period; a window with a null never yields a partial average.            *)
C14_SmaStrictCompleteness ==
    ret.op = "_calculate_sma" =>
        /\ ret.exc = None
        /\ Len(ret.val) = Len(ret.arg)
        /\ \A i \in 0..(Len(ret.arg) - 1) :
              IF i >= ret.period - 1
                 /\ \A j \in Window(i, ret.period) : ret.arg[j] # None
              THEN ret.val[i + 1] = RefMean(ret.arg, i, ret.period)
              ELSE ret.val[i + 1] = None

C14_Witness ==
    /\ ret.op = "_calculate_sma"
    /\ ret.period >= 2
    /\ \E i \in (ret.period - 1)..(Len(ret.arg) - 1) :
          /\ ret.arg[i + 1] # None
          /\ \E j \in Window(i, ret.period) : ret.arg[j] = None
          /\ ret.val[i + 1] = None
    /\ \E i \in 0..(Len(ret.arg) - 1) :
          ret.val[i + 1] \notin {None, Zero, FromInt(40), Hundred}

InRange(x) == x = None \/ (~Lt(x, Zero) /\ ~Gt(x, Hundred))

(* C15: every rsi, k and d that calculate returns is null or lies in the   *)
(* closed interval [0, 100].                                               *)
C15_Range ==
    ret.op \in DriverOps =>
        \A i \in 1..Len(ret.val) :
            /\ InRange(ret.val[i].rsi)
            /\ InRange(ret.val[i].k)
            /\ InRange(ret.val[i].d)

C15_Witness ==
    /\ ret.op = "calculate"
    /\ \E i \in 1..Len(ret.val) : ret.val[i].rsi \notin {None, Zero, Hundred}
    /\ \E i \in 1..Len(ret.val) : ret.val[i].k = Hundred
    /\ \E i \in 1..Len(ret.val) : ret.val[i].k = Zero
    /\ \E i \in 1..Len(ret.val) : ret.val[i].d \notin {None, Zero, Hundred}

(* the three stages written over positions, for C16 *)
RefRsiList(cl, period) ==
    [i \in 1..Len(cl) |->
        IF Len(cl) < period + 1 \/ i - 1 < period THEN None
        ELSE RefRsi(RefAvg(cl, period, i - 1, "gain"),
                    RefAvg(cl, period, i - 1, "loss"))]

RefStochK(list, i, period) ==
    IF ~Complete(list, i, period) THEN None
    ELSE IF RefMax(list, i, period) = RefMin(list, i, period) THEN Fifty
    ELSE Mul(Div(Sub(list[i + 1], RefMin(list, i, period)),
                 Sub(RefMax(list, i, period), RefMin(list, i, period))),
             Hundred)

RefStochKList(list, period) ==
    [i \in 1..Len(list) |-> RefStochK(list, i - 1, period)]

RefSma(list, i, period) ==
    IF Complete(list, i, period) THEN RefMean(list, i, period) ELSE None

RefSmaList(list, period) ==
    [i \in 1..Len(list) |-> RefSma(list, i - 1, period)]

RefRawK(cl, c) ==
    RefStochKList(RefRsiList(cl, c.rsi_length), c.stoch_length)

(* the k fields of the readings returned, as a list *)
OwnK == [i \in 1..Len(ret.val) |-> ret.val[i].k]

(* C16: when the guard passes, the rsi field at index i is the RSI stage's *)
(* value at i, the k field is the SMA(k_smooth) of the raw %K and not the  *)
(* raw %K, and the d field at i is the mean of the returned k fields at    *)
(* i-d_smooth+1..i (null while that window is incomplete), with no index   *)
(* shift between stages.                                                   *)
C16_Composition ==
    (ret.op \in DriverOps /\ Len(closes) >= Threshold(calc)) =>
        /\ ret.exc = None
        /\ Len(ret.val) = Len(closes)
        /\ [i \in 1..Len(ret.val) |-> ret.val[i].rsi] =
              RefRsiList(closes, calc.rsi_length)
        /\ OwnK = RefSmaList(RefRawK(closes, calc), calc.k_smooth)
        /\ [i \in 1..Len(ret.val) |-> ret.val[i].d] =
              RefSmaList(OwnK, calc.d_smooth)

C16_Witness ==
    /\ ret.op = "calculate"
    /\ calc.k_smooth >= 2
    /\ calc.d_smooth >= 2
    /\ Len(closes) >= Threshold(calc)
    /\ ret.val[Len(closes)].k # RefRawK(closes, calc)[Len(closes)]
    /\ ret.val[Len(closes)].d # ret.val[Len(closes)].k
    /\ ret.val[Len(closes)].d # None

NoFall(cl) == \A i \in 1..(Len(cl) - 1) : ~Lt(cl[i + 1], cl[i])

(* one of the first period deltas is positive *)
EarlyRise(cl, period) ==
    \E i \in 1..(Len(cl) - 1) : i <= period /\ Gt(cl[i + 1], cl[i])

ScenarioRsi ==
    (ret.op = "calculate" /\ closes = Scenario /\ calc = ScenarioCalculator) =>
        /\ ret.exc = None
        /\ Len(ret.val) = Len(Scenario)
        /\ ret.val[1].rsi = None
        /\ ret.val[2].rsi = None
        /\ ret.val[3].rsi = Hundred

(* C17 as stated: in the scenario rsi is null at indices 0 and 1 and 100   *)
(* at index 2; for any closes with no negative delta and a positive delta  *)
(* among the first period deltas, the RSI is 100 at every index >= period. *)
C17_MonotoneRise ==
    /\ ScenarioRsi
    /\ (ret.op = "_calculate_rsi" /\ NoFall(closes) /\ EarlyRise(closes, ret.period)) =>
          /\ ret.exc = None
          /\ \A i \in ret.period..(Len(closes) - 1) : ret.val[i + 1] = Hundred

(* C17 as amended: in the scenario rsi is null at indices 0 and 1 and 100  *)
(* at index 2; for any closes with no negative delta and a positive delta  *)
(* among the first period deltas, the RSI at an index >= period is 100     *)
(* when period >= 2 or the delta at that index is positive, and 0 when     *)
(* period = 1 and the delta at that index is 0.                            *)
C17_MonotoneRiseWilder ==
    /\ ScenarioRsi
    /\ (ret.op = "_calculate_rsi" /\ NoFall(closes) /\ EarlyRise(closes, ret.period)) =>
          /\ ret.exc = None
          /\ \A i \in ret.period..(Len(closes) - 1) :
                ret.val[i + 1] =
                    IF ret.period >= 2 \/ Gt(closes[i + 1], closes[i])
                    THEN Hundred ELSE Zero

C17_Witness ==
    /\ ret.op = "_calculate_rsi"
    /\ ret.period = 1
    /\ NoFall(closes)
    /\ EarlyRise(closes, ret.period)
    /\ Len(closes) >= 3
    /\ ret.val[2] = Hundred
    /\ ret.val[Len(closes)] = Zero

(* C18 as stated: in the scenario k equals rsi at every index where k is   *)
(* non-null.                                                               *)
C18_KEqualsRsi ==
    (ret.op = "calculate" /\ closes = Scenario /\ calc = ScenarioCalculator) =>
        \A i \in 1..Len(ret.val) :
            ret.val[i].k # None => ret.val[i].k = ret.val[i].rsi

(* C18 as amended: in the scenario k is null at indices 0..2 and, at every *)
(* index from 3 on, k equals d and the raw %K of a flat window, 50, while  *)
(* rsi is 100.                                                             *)
C18_KEqualsRawK ==
    (ret.op = "calculate" /\ closes = Scenario /\ calc = ScenarioCalculator) =>
        /\ ret.exc = None
        /\ Len(ret.val) = Len(Scenario)
        /\ \A i \in 1..Len(ret.val) :
              IF i - 1 < 3
              THEN ret.val[i].k = None
              ELSE /\ ret.val[i].k = Fifty
                   /\ ret.val[i].d = ret.val[i].k
                   /\ ret.val[i].k = RefRawK(closes, calc)[i]
                   /\ ret.val[i].rsi = Hundred

C18_Witness ==
    /\ ret.op = "calculate"
    /\ closes = Scenario
    /\ calc = ScenarioCalculator
    /\ ret.stages # <<>>
    /\ ret.val[Len(Scenario)].k = Fifty
    /\ ret.val[Len(Scenario)].rsi = Hundred

AllNull(readings) == \A i \in 1..Len(readings) : FullyNull(readings[i])

(* what the four stages give on cl without the guard in front of them *)
Unguarded(c, cl) == AfterRsi(c, cl, RsiRun(cl, c.rsi_length))

(* C19 as stated: for the calculator at hand some list passes the guard,   *)
(* has the four stages run and comes back with every field of every        *)
(* reading null.                                                           *)
C19_GuardLooser ==
    \E cl \in PriceLists :
        /\ Len(cl) >= Threshold(calc)
        /\ calculate(calc, cl).stages # <<>>
        /\ AllNull(calculate(calc, cl).val)

(* C19 as amended: no list passes the guard and comes back all-null.  When *)
(* the stages run, exactly the last len - threshold + 1 >= 1 readings have *)
(* a d, and the last reading has k, d and rsi; when the guard cuts the     *)
(* call short, the stages on their own would have given no d at all.       *)
C19_GuardTight ==
    ret.op \in DriverOps =>
        IF ret.stages # <<>>
        THEN /\ ret.exc = None
             /\ Len(closes) >= Threshold(calc)
             /\ {i \in 1..Len(ret.val) : ret.val[i].d # None} =
                    Threshold(calc)..Len(closes)
             /\ ~AllNull(ret.val)
             /\ ret.val[Len(ret.val)].k # None
             /\ ret.val[Len(ret.val)].rsi # None
        ELSE /\ Unguarded(calc, closes).exc = None
             /\ \A i \in 1..Len(closes) : Unguarded(calc, closes).val[i].d = None

C19_Witness ==
    /\ ret.op = "calculate"
    /\ Len(closes) = Threshold(calc)
    /\ Threshold(calc) >= 3
    /\ ret.stages # <<>>
    /\ FullyNull(ret.val[1])
    /\ ret.val[Len(closes) - 1].d = None
    /\ ret.val[Len(closes)].d # None

NullInWindow(list, i, period) ==
    i >= period - 1 /\ \E j \in Window(i, period) : list[j] = None

NullPattern(list) == {i \in 1..Len(list) : list[i] = None}

SmaStrict ==
    ret.op = "_calculate_sma" =>
        /\ ret.exc = None
        /\ Len(ret.val) = Len(ret.arg)
        /\ \A i \in 0..(Len(ret.arg) - 1) :
              NullInWindow(ret.arg, i, ret.period) => ret.val[i + 1] = None

(* C20 as stated: _calculate_sma puts null at i whenever an entry of its   *)
(* window is null, whereas for some list and some index _calculate_stoch_k *)
(* puts a number although its window rsi[i-period+1..i] holds a null.      *)
C20_HeterogeneousNullPolicy ==
    /\ SmaStrict
    /\ \E list \in OptLists : \E i \in 0..(Len(list) - 1) :
          /\ NullInWindow(list, i, calc.stoch_length)
          /\ calculate_stoch_k(list, calc.stoch_length)[i + 1] # None

(* C20 as amended: both scans need period numbers out of the period        *)
(* entries of the window: _calculate_stoch_k, like _calculate_sma, puts    *)
(* null at i whenever an entry of its window is null, also when period     *)
(* numbers stand earlier in the list, and on the same list and period the  *)
(* two scans are null at the same indices.                                 *)
C20_SameNullPolicy ==
    /\ SmaStrict
    /\ ret.op = "_calculate_stoch_k" =>
          /\ ret.exc = None
          /\ Len(ret.val) = Len(ret.arg)
          /\ \A i \in 0..(Len(ret.arg) - 1) :
                NullInWindow(ret.arg, i, ret.period) => ret.val[i + 1] = None
          /\ NullPattern(ret.val) = NullPattern(calculate_sma(ret.arg, ret.period))

C20_Witness ==
    /\ ret.op = "_calculate_stoch_k"
    /\ ret.period >= 2
    /\ \E i \in 0..(Len(ret.arg) - 1) :
          /\ NullInWindow(ret.arg, i, ret.period)
          /\ ret.arg[i + 1] # None
          /\ Cardinality({j \in 1..(i + 1) : ret.arg[j] # None}) >= ret.period
          /\ ret.val[i + 1] = None
    /\ \E i \in 0..(Len(ret.arg) - 1) : ret.val[i + 1] # None

(* C21: assigning a field of one returned reading leaves every other      *)
(* reading of the same list as it was, after a short-circuit as well as    *)
(* after a full computation.                                               *)
C21_FreshReadings ==
    ret.op = "setattr" =>
        \A j \in 1..Len(ret.val) : j # ret.period + 1 => ret.val[j] = ret.arg[j]


(* C24: a call of save_stoch_rsi_data returns without raising, whatever   *)
(* saves of the same symbol and timeframe came before it and at whatever  *)
(* ticks                                                                  *)
C24_UpsertNeverFails ==
    ret.op = "save_stoch_rsi_data" => ret.exc = None

(* C25: once save_stoch_rsi_data(symbol, timeframe, k, d, rsi) has        *)
(* returned, get_latest_data and get_latest_stoch_rsi of that symbol and  *)
(* timeframe give the saved k, d and rsi rounded to 4 decimals, a saved 0 *)
(* included                                                               *)
C25_SaveReadRoundTrip ==
    (ret.op = "save_stoch_rsi_data" /\ ret.exc = None) =>
        \A read \in {get_latest_data(db, ret.arg.symbol, ret.arg.timeframe),
                     get_latest_stoch_rsi(db, ret.arg.symbol, ret.arg.timeframe)} :
            /\ read # None
            /\ read.k = Round4(ret.arg.saved.k)
            /\ read.d = Round4(ret.arg.saved.d)
            /\ read.rsi = Round4(ret.arg.saved.rsi)


(* the reading calculate_stoch_rsi gives at the last close of the klines *)
CoreCurrent == CoreOf(closes).val[Len(closes)]

(* the readings of the core with k and d, the last five of them *)
CoreLastValues ==
    LastFive(SelectSeq(CoreOf(closes).val, LAMBDA v : v.k # None /\ v.d # None))

Reported(x) == IF x = None THEN None ELSE Round4(x)

(* C22: in the dictionary calculate_pair returns, current.k, current.d,   *)
(* current.rsi and each rsi of last_values are None only where the field  *)
(* of the core's reading is null, and a computed 0 is reported as 0       *)
C22_NullIsNotZero ==
    (ret.op = "calculate_pair" /\ ret.exc = None /\ closes # <<>>) =>
        /\ \A f \in Fields : ret.val.current[f] = Reported(CoreCurrent[f])
        /\ \A i \in 1..Len(ret.val.last_values) :
               ret.val.last_values[i].rsi = Reported(CoreLastValues[i].rsi)

SaveOrder == <<"save_stoch_rsi_data", "save_candles", "save_history">>

SaveCalls(called) == SelectSeq(called, LAMBDA s : s \in {SaveOrder[i] : i \in 1..3})

(* C23: a call of calculate_pair writes the database, and calls a save_*  *)
(* method, only when the last reading of the core has k and d; the save_* *)
(* calls it makes are save_stoch_rsi_data, save_candles, save_history in  *)
(* that order; on empty klines it returns a dictionary with an error key  *)
(* and writes nothing                                                     *)
C23_PersistOnlyComplete ==
    [][LET writes == SaveCalls(ret'.stages)
           stored == <<db'.symbols, db'.rows, db'.candles, db'.history>> #
                     <<db.symbols, db.rows, db.candles, db.history>>
       IN  /\ (stored \/ writes # <<>>) =>
                  /\ closes' # <<>>
                  /\ CoreOf(closes').val[Len(closes')].k # None
                  /\ CoreOf(closes').val[Len(closes')].d # None
           /\ \E n \in 0..3 : writes = SubSeq(SaveOrder, 1, n)
           /\ (ret'.op = "calculate_pair" /\ closes' = <<>>) =>
                  /\ "error" \in DOMAIN ret'.val
                  /\ ~stored]_vars

C23_Witness ==
    /\ ret.op = "calculate_pair"
    /\ SaveCalls(ret.stages) = SaveOrder
    /\ db.rows # {} /\ db.candles # {} /\ db.history # {}


FirstKIndex(c) == c.rsi_length + c.stoch_length + c.k_smooth - 2

(* field f of the readings, once non-null, is non-null up to the last one *)
StaysValid(readings, f) ==
    \A i \in 1..Len(readings) : \A j \in i..Len(readings) :
        readings[i][f] # None => readings[j][f] # None

(* C27: when the guard passes, rsi is non-null exactly at the indices     *)
(* >= rsi_length and k exactly at the indices >= rsi_length +             *)
(* stoch_length + k_smooth - 2; at every index d non-null implies k       *)
(* non-null implies rsi non-null; each field, once non-null, stays so     *)
C27_ValidityMap ==
    (ret.op \in DriverOps /\ Len(closes) >= Threshold(calc)) =>
        /\ \A i \in 1..Len(ret.val) :
              /\ (ret.val[i].rsi # None) <=> (i - 1 >= calc.rsi_length)
              /\ (ret.val[i].k # None) <=> (i - 1 >= FirstKIndex(calc))
              /\ ret.val[i].d # None => ret.val[i].k # None
              /\ ret.val[i].k # None => ret.val[i].rsi # None
        /\ \A f \in Fields : StaysValid(ret.val, f)

C27_Witness ==
    /\ ret.op = "calculate"
    /\ Len(closes) > Threshold(calc)
    /\ calc.rsi_length < FirstKIndex(calc)
    /\ FirstKIndex(calc) < FirstValidIndex(calc)
    /\ ret.val[calc.rsi_length].rsi = None
    /\ ret.val[calc.rsi_length + 1].rsi # None
    /\ ret.val[FirstKIndex(calc)].k = None
    /\ ret.val[FirstKIndex(calc) + 1].k # None
    /\ ret.val[FirstKIndex(calc) + 1].d = None

(* C28: for every prefix q of the closes whose length passes the guard,   *)
(* calculate(q) gives at each index below len(q) the reading that         *)
(* calculate(closes) gives there                                          *)
C28_NoLookAhead ==
    ret.op = "calculate" =>
        \A n \in Threshold(calc)..Len(closes) :
            LET short == calculate(calc, Prefix(closes, n))
            IN  /\ short.exc = ret.exc
                /\ \A i \in 1..n : short.val[i] = ret.val[i]

C28_Witness ==
    /\ ret.op = "calculate"
    /\ Len(closes) >= Threshold(calc) + 2
    /\ ret.val[Threshold(calc)] # ret.val[Len(closes)]
    /\ ret.val[Threshold(calc)] = calculate(calc, Prefix(closes, Threshold(calc))).val[Threshold(calc)]


InsidePcs == {"read", "calc_inside", "symbols_read", "volume_read"}

AcquirePcs == {"acquire", "calc_acquire", "symbols_acquire", "volume_acquire"}

(* C26: a thread inside a database operation holds db_lock, so no two     *)
(* threads are inside one at the same time; a thread about to acquire     *)
(* db_lock does not hold it; the database is written only by the thread   *)
(* that holds db_lock                                                     *)
C26_DatabaseMutualExclusion ==
    /\ [](\A t \in Threads : \A u \in Threads :
             /\ srv.threads[t].pc \in InsidePcs => srv.lock = t
             /\ srv.threads[t].pc \in AcquirePcs => srv.lock # t
             /\ (srv.threads[t].pc \in InsidePcs /\ srv.threads[u].pc \in InsidePcs)
                    => t = u)
    /\ [][db' # db =>
              /\ srv.lock = "run_calc"
              /\ srv.threads["run_calc"].pc = "calc_inside"]_vars

C26_Witness ==
    /\ srv.lock = "run_calc"
    /\ srv.threads["run_calc"].pc = "calc_inside"
    /\ srv.threads["background_refresh_thread"].pc = "acquire"
    /\ srv.threads["get_table"].pc \in AcquirePcs

ListedSymbols(symbols) == {symbols[i] : i \in 1..Len(symbols)}

(* every symbol of the map has one slot for each configured timeframe *)
WholeMap(data) ==
    \A s \in DOMAIN data : DOMAIN data[s] = {TIMEFRAMES[j] : j \in 1..Len(TIMEFRAMES)}

(* C29: cache['data'] is at every moment a whole map; it changes only in  *)
(* the assignment that ends a refresh_cache(symbols), and after that      *)
(* assignment its symbols are exactly the symbols passed, whatever was    *)
(* cached before                                                          *)
C29_RefreshReplaces ==
    /\ []WholeMap(srv.data)
    /\ [][\A t \in Threads :
             LET assigns == srv.threads[t].pc = "assign" /\ srv'.threads[t].pc # "assign"
             IN  /\ assigns => DOMAIN srv'.data = ListedSymbols(srv.threads[t].symbols)
                 /\ assigns => srv'.data = srv.threads[t].new_data
                 /\ srv'.data # srv.data =>
                        \E u \in Threads : /\ srv.threads[u].pc = "assign"
                                            /\ srv'.threads[u].pc # "assign"]_vars

C29_Witness ==
    /\ DOMAIN srv.data = {"A"}
    /\ db.symbols = {"A", "B"}
    /\ srv.threads["run_calc"].pc = "idle"
    /\ srv.threads["background_refresh_thread"].pc = "acquire"
    /\ DOMAIN srv.threads["background_refresh_thread"].new_data = {"A"}
    /\ srv.threads["background_refresh_thread"].i = 1

====
